---- MODULE Spec2Model ----
(***************************************************************************)
(* mcpi: the client side of the line-delimited request/reply protocol.     *)
(*   src/mcpi/util.py        flatten, flatten_parameters_to_bytestring     *)
(*   src/mcpi/connection.py  Connection: drain, _send, _receive,           *)
(*                           sendReceive*, _unmarshalList, _parse*         *)
(* Text and bytes are sequences of one-character strings.  A byte on the   *)
(* socket is a pair <<character, r>>: r is the number of the request frame *)
(* the remote was answering when it sent the byte, 0 for a byte it sent    *)
(* unasked.  r is bookkeeping of the model; the client never looks at it.  *)
(***************************************************************************)
EXTENDS Integers, Sequences, FiniteSets, TLC

VARIABLES
    pc,          \* where the client is: idle, poll, recv, write, read
    op,          \* the operation in progress (name, f, data, converter, ...)
    lastSent,    \* Connection.lastSent
    rcvbuf,      \* the socket's receive buffer: bytes delivered and unread
    net,         \* bytes the remote has sent that have not reached the socket
    peerClosed,  \* the remote has closed the stream
    nSent,       \* number of request frames written to the socket
    lastFrame,   \* the bytes of the last frame written
    handled,     \* number of frames the remote has answered
    curReply,    \* what the remote answered to the last frame written, if it has
    rbuf,        \* the bytes the current makefile("r") object has read
    outcome,     \* how the last operation ended
    nOps,        \* number of operations started
    polls,       \* select calls made by the current drain
    pendingAtStart, \* bytes buffered when the current drain started
    drained,     \* bytes the current drain has discarded
    late,        \* a byte of another exchange arrived after the drain ended
    nJunk,       \* number of unasked transmissions of the remote
    ioFailed,    \* an earlier operation ended with an I/O error or a timeout
    stack,       \* the caller's argument tuple under construction
    atomLog,     \* the atoms put into it, in the order they were put
    tokens,      \* number of construction steps taken
    raw,         \* a reply line being composed
    frame,       \* the local s of _send: the frame to write
    flat,        \* what flatten yielded for the arguments of the operation
    prevKind,    \* how the operation before the current one ended
    steps,       \* what the current operation has done: drain, write, read
    nReads,      \* number of reply reads started
    environ,     \* os.environ: the variables that are set, with their text
    target,      \* the address and port handed to Connection
    _playerName, \* Minecraft._playerName
    mcall,       \* the method of Minecraft in progress
    mret         \* what the last method of Minecraft returned

\* the record of what the operations did
histVars == <<prevKind, steps, nReads>>
\* the state of Minecraft and of the process around the Connection
mcVars == <<environ, target, _playerName, mcall, mret>>
connVars == <<pc, op, frame, flat, lastSent, rcvbuf, net, peerClosed, nSent, lastFrame,
              handled, curReply, rbuf, outcome, nOps, polls, pendingAtStart,
              drained, late, nJunk, ioFailed, prevKind, steps, nReads>>
argVars == <<stack, atomLog, tokens, raw, environ, target, _playerName, mcall, mret>>
vars == <<pc, op, lastSent, rcvbuf, net, peerClosed, nSent, lastFrame,
          handled, curReply, rbuf, outcome, nOps, polls, pendingAtStart,
          drained, late, nJunk, ioFailed, stack, atomLog, tokens, raw, frame, flat,
          prevKind, steps, nReads,
          environ, target, _playerName, mcall, mret>>

-----------------------------------------------------------------------------
(* Bounds of the model *)

MaxOps == 2
MaxJunk == 1
MaxPolls == 3
MaxTokens == 2
MaxDepth == 2

-----------------------------------------------------------------------------
(* Sequence helpers *)

NL == "\n"

Min(a, b) == IF a < b THEN a ELSE b

Map(F(_), s) == [i \in 1..Len(s) |-> F(s[i])]

Take(s, n) == SubSeq(s, 1, Min(n, Len(s)))

Drop(s, n) == SubSeq(s, Min(n, Len(s)) + 1, Len(s))

Chars(tb) == [i \in 1..Len(tb) |-> tb[i][1]]

Tagged(t, r) == [i \in 1..Len(t) |-> <<t[i], r>>]

\* position of the first c in s, 0 when there is none
RECURSIVE IndexFrom(_, _, _)
IndexFrom(s, c, i) ==
    IF i > Len(s) THEN 0
    ELSE IF s[i] = c THEN i
    ELSE IndexFrom(s, c, i + 1)

Find(s, c) == IndexFrom(s, c, 1)

-----------------------------------------------------------------------------
(* Python values that callers pass as arguments *)

PyInt(n) == [k |-> "int", n |-> n, s |-> <<>>, items |-> <<>>]
PyNone == [k |-> "none", n |-> 0, s |-> <<>>, items |-> <<>>]
PyStr(s) == [k |-> "str", n |-> 0, s |-> s, items |-> <<>>]
PyList(items) == [k |-> "list", n |-> 0, s |-> <<>>, items |-> items]

\* isinstance(e, Iterable): lists and tuples are, and so is text
IsIterable(e) == e.k \in {"list", "str"}

\* isinstance(e, str)
IsStr(e) == e.k = "str"

\* what "for ee in e" yields: the items of a list, the characters of a text
Iterate(e) ==
    IF e.k = "list" THEN e.items
    ELSE [i \in 1..Len(e.s) |-> PyStr(<<e.s[i]>>)]

\* a flatten that leaves out the test for text: text is iterated too
RECURSIVE flatten_decomposing(_)
flatten_decomposing(l) ==
    IF l = <<>> THEN <<>>
    ELSE LET e == Head(l) IN
         (IF IsIterable(e) /\ ~(IsStr(e) /\ Len(e.s) <= 1)
             THEN flatten_decomposing(Iterate(e))
             ELSE <<e>>)
         \o flatten_decomposing(Tail(l))

\* util.flatten
RECURSIVE flatten(_)
flatten(l) ==
    IF l = <<>> THEN <<>>
    ELSE LET e == Head(l) IN
         (IF IsIterable(e) /\ ~IsStr(e)
             THEN flatten(Iterate(e))
             ELSE <<e>>)
         \o flatten(Tail(l))

Digit(d) ==
    CASE d = 0 -> "0" [] d = 1 -> "1" [] d = 2 -> "2" [] d = 3 -> "3"
      [] d = 4 -> "4" [] d = 5 -> "5" [] d = 6 -> "6" [] d = 7 -> "7"
      [] d = 8 -> "8" [] d = 9 -> "9"

RECURSIVE NatText(_)
NatText(n) ==
    IF n < 10 THEN <<Digit(n)>>
    ELSE NatText(n \div 10) \o <<Digit(n % 10)>>

\* str(m) of an argument
str(m) ==
    CASE m.k = "int" -> (IF m.n < 0 THEN <<"-">> \o NatText(-m.n) ELSE NatText(m.n))
      [] m.k = "none" -> <<"N", "o", "n", "e">>
      [] m.k = "str" -> m.s

\* util._misc_to_bytes: utf8 keeps every character used here as one byte
_misc_to_bytes(m) == str(m)

\* sep.join(parts)
RECURSIVE join(_, _)
join(sep, parts) ==
    IF parts = <<>> THEN <<>>
    ELSE IF Len(parts) = 1 THEN parts[1]
    ELSE parts[1] \o sep \o join(sep, Tail(parts))

\* util.flatten_parameters_to_bytestring
flatten_parameters_to_bytestring(l) ==
    join(<<",">>, Map(_misc_to_bytes, flatten(l)))

\* the frame _send builds: b"".join([f, b"(", ..., b")", b"\n"])
Frame(f, data) ==
    join(<<>>, <<f, <<"(">>, flatten_parameters_to_bytestring(data), <<")">>, <<NL>>>>)

-----------------------------------------------------------------------------
(* Decoding a reply line *)

\* Connection.RequestFailed
RequestFailed == <<"F", "a", "i", "l">>

IsPrefixAt(s, sep, i) ==
    /\ i + Len(sep) - 1 <= Len(s)
    /\ \A j \in 1..Len(sep) : s[i + j - 1] = sep[j]

\* position of the first occurrence of the text sep in s at or after i, else 0
RECURSIVE FindSep(_, _, _)
FindSep(s, sep, i) ==
    IF i + Len(sep) - 1 > Len(s) THEN 0
    ELSE IF IsPrefixAt(s, sep, i) THEN i
    ELSE FindSep(s, sep, i + 1)

\* str.split(sep, maxsplit) for a non-empty sep; maxsplit < 0 is no limit
RECURSIVE split(_, _, _)
split(s, sep, maxsplit) ==
    LET i == FindSep(s, sep, 1) IN
    IF maxsplit = 0 \/ i = 0 THEN <<s>>
    ELSE <<SubSeq(s, 1, i - 1)>>
         \o split(SubSeq(s, i + Len(sep), Len(s)), sep,
                  IF maxsplit < 0 THEN maxsplit ELSE maxsplit - 1)

\* str.rstrip("\n")
RECURSIVE rstrip_nl(_)
rstrip_nl(s) ==
    IF s # <<>> /\ s[Len(s)] = NL THEN rstrip_nl(SubSeq(s, 1, Len(s) - 1)) ELSE s

\* bytes.strip() of a frame: the frames end in one newline and hold no other
\* whitespace at their ends
strip(s) == rstrip_nl(s)

Digits == {"0", "1", "2", "3", "4", "5", "6", "7", "8", "9"}

DigitVal(c) ==
    CASE c = "0" -> 0 [] c = "1" -> 1 [] c = "2" -> 2 [] c = "3" -> 3
      [] c = "4" -> 4 [] c = "5" -> 5 [] c = "6" -> 6 [] c = "7" -> 7
      [] c = "8" -> 8 [] c = "9" -> 9

AllDigits(t) == \A i \in 1..Len(t) : t[i] \in Digits

RECURSIVE NatVal(_)
NatVal(t) ==
    IF t = <<>> THEN 0 ELSE 10 * NatVal(SubSeq(t, 1, Len(t) - 1)) + DigitVal(t[Len(t)])

HasSign(t) == t # <<>> /\ t[1] \in {"+", "-"}

Unsigned(t) == IF HasSign(t) THEN Tail(t) ELSE t

Signed(t, n) == IF HasSign(t) /\ t[1] = "-" THEN -n ELSE n

\* int(t) and float(t) on text made of digits, signs, ".", "," and letters
\* other than those of inf, nan and an exponent: the forms with blanks,
\* underscores, exponents, inf and nan are outside the texts of the model.
\* int(t) raises ValueError unless t is an optional sign and digits
IntParses(t) == Unsigned(t) # <<>> /\ AllDigits(Unsigned(t))

IntValue(t) == [k |-> "int", n |-> Signed(t, NatVal(Unsigned(t))), e |-> 0]

\* float(t) raises ValueError unless t is an optional sign, then digits with
\* at most one "." and at least one digit
FloatParses(t) ==
    LET u == Unsigned(t)
        d == Find(u, ".")
        whole == IF d = 0 THEN u ELSE SubSeq(u, 1, d - 1)
        frac == IF d = 0 THEN <<>> ELSE SubSeq(u, d + 1, Len(u))
    IN /\ AllDigits(whole) /\ AllDigits(frac)
       /\ Len(whole) + Len(frac) > 0

\* drop the zeros at the end of a fraction
RECURSIVE TrimZeros(_)
TrimZeros(t) ==
    IF t # <<>> /\ t[Len(t)] = "0" THEN TrimZeros(SubSeq(t, 1, Len(t) - 1)) ELSE t

\* the number float(t) denotes: n * 10^-e
FloatValue(t) ==
    LET u == Unsigned(t)
        d == Find(u, ".")
        whole == IF d = 0 THEN u ELSE SubSeq(u, 1, d - 1)
        frac == TrimZeros(IF d = 0 THEN <<>> ELSE SubSeq(u, d + 1, Len(u)))
    IN [k |-> "float", n |-> Signed(t, NatVal(whole \o frac)), e |-> Len(frac)]

\* converter(string) raises ValueError
Raises(converter, t) ==
    IF converter = "int" THEN ~IntParses(t) ELSE ~FloatParses(t)

Convert(converter, t) ==
    IF converter = "int" THEN IntValue(t) ELSE FloatValue(t)

Result(kind, val) == [kind |-> kind, val |-> val]

\* kwargs.setdefault("sep", "|"): no text stands for a caller that gave none
setdefault(sep) == IF sep = <<>> THEN <<"|">> ELSE sep

\* an _unmarshalList without the test for the empty text
_unmarshalList_plain(dataStr, sep, maxsplit) == split(dataStr, sep, maxsplit)

\* Connection._unmarshalList
_unmarshalList(dataStr, sep, maxsplit) ==
    IF dataStr = <<>> THEN <<>> ELSE split(dataStr, sep, maxsplit)

\* a _parseScalar that takes a zero for no value: converter(string) or None
_parseScalar_falsy(converter, string) ==
    IF Raises(converter, string) \/ Convert(converter, string).n = 0
        THEN Result("None", <<>>)
        ELSE Result("scalar", <<Convert(converter, string)>>)

\* Connection._parseScalar
_parseScalar(converter, string) ==
    IF Raises(converter, string) THEN Result("None", <<>>)
    ELSE Result("scalar", <<Convert(converter, string)>>)

\* Vec3(*vals): a constructor of three components.  With more than three
\* arguments the call raises TypeError; with fewer it raises TypeError or
\* fills the missing components with defaults, as vec3.py decides.
Vec3(vals) ==
    IF Len(vals) = 3 THEN Result("Vec3", vals)
    ELSE IF Len(vals) > 3 THEN Result("TypeError", <<>>)
    ELSE Result("Vec3Short", vals)

\* Connection._parseVec3
_parseVec3(converter, string) ==
    LET fields == split(string, <<",">>, -1) IN
    IF \E i \in 1..Len(fields) : Raises(converter, fields[i])
        THEN Result("None", <<>>)
        ELSE Vec3([i \in 1..Len(fields) |-> Convert(converter, fields[i])])

\* constructor(*fields) for a constructor of op.arity positional parameters
Construct(arity, fields) ==
    IF Len(fields) = arity THEN Result("obj", fields) ELSE Result("TypeError", <<>>)

\* a sendReceiveObjectList that does not hand maxsplit to split
ObjectList_nolimit(arity, maxsplit, items) ==
    LET objs == [i \in 1..Len(items) |->
                    Construct(arity, split(items[i], <<",">>, -1))] IN
    IF \E i \in 1..Len(objs) : objs[i].kind = "TypeError"
        THEN Result("TypeError", <<>>)
        ELSE Result("objs", [i \in 1..Len(objs) |-> objs[i].val])

\* the list comprehension of sendReceiveObjectList over the decoded list
ObjectList(arity, maxsplit, items) ==
    LET objs == [i \in 1..Len(items) |->
                    Construct(arity, split(items[i], <<",">>, maxsplit))] IN
    IF \E i \in 1..Len(objs) : objs[i].kind = "TypeError"
        THEN Result("TypeError", <<>>)
        ELSE Result("objs", [i \in 1..Len(objs) |-> objs[i].val])

\* a comparison with "true" that disregards case in the first letter
eq_true_anycase(s) == s \in {<<"t", "r", "u", "e">>, <<"T", "r", "u", "e">>}

\* sendReceiveBool: ... == "true"
eq_true(s) == s = <<"t", "r", "u", "e">>

\* what each operation makes of the line s that _receive returned
Decode(o, s) ==
    CASE o.name = "sendReceive" -> Result("str", s)
      [] o.name = "sendReceiveList" ->
            Result("list", _unmarshalList(s, setdefault(o.sep), o.maxsplit))
      [] o.name = "sendReceiveScalar" -> _parseScalar(o.converter, s)
      [] o.name = "sendReceiveBool" -> Result("bool", <<eq_true(s)>>)
      [] o.name = "sendReceiveVec3" -> _parseVec3(o.converter, s)
      [] o.name = "sendReceiveObjectList" ->
            ObjectList(o.arity, o.maxsplit, _unmarshalList(s, setdefault(<<>>), -1))

\* "%s" % b for the bytes b of a frame, which hold no quote, no backslash
\* and, once stripped, no control character: the text b'...'
bytes_str(b) == <<"b", "'">> \o b \o <<"'">>

\* the argument of RequestError: "%s failed" % self.lastSent.strip()
FailedText(sent) == bytes_str(strip(sent)) \o <<" ", "f", "a", "i", "l", "e", "d">>

\* a _receive that takes every line starting with the sentinel for it
_receive_prefix(o, line, sent) ==
    LET s == rstrip_nl(line) IN
    IF IsPrefixAt(s, RequestFailed, 1)
        THEN Result("RequestError", FailedText(sent))
        ELSE Decode(o, s)

\* Connection._receive after readline: trim, test for the sentinel, return
_receive(o, line, sent) ==
    LET s == rstrip_nl(line) IN
    IF s = RequestFailed
        THEN Result("RequestError", FailedText(sent))
        ELSE Decode(o, s)

-----------------------------------------------------------------------------
(* The socket *)

\* the size drain passes to recv
RecvSize == 1500

\* the buffer size of the file object that makefile("r") returns
ReadSize == 8192

\* the peer's end of stream has reached the socket
AtEOF == peerClosed /\ net = <<>>

\* a select that never reports the socket readable
select_never(buf, eof) == FALSE

\* select.select([socket], [], [], 0.0): readable when bytes are buffered or
\* the stream has ended
select(buf, eof) == buf # <<>> \/ eof

\* the line that readline returned: the bytes read up to the first newline,
\* or all of them when the stream ended before one
LineBytes ==
    LET i == Find(Chars(rbuf), NL) IN
    IF i = 0 THEN rbuf ELSE SubSeq(rbuf, 1, i - 1)

-----------------------------------------------------------------------------
(* The operations of Connection *)

MkOp(name, f, data, converter, sep, maxsplit, arity) ==
    [name |-> name, f |-> f, data |-> data, converter |-> converter,
     sep |-> sep, maxsplit |-> maxsplit, arity |-> arity]

NoOp == MkOp("none", <<>>, <<>>, "int", <<"|">>, -1, 0)

\* a _send that goes to sendall without draining
SendEntry_nodrain == "write"

\* a Connection that takes no operation once a request has failed
SendEntry_closed == IF outcome.kind = "RequestError" THEN "idle" ELSE "poll"

\* the first step of every operation is _send, and _send drains first
SendEntry == "poll"

\* the caller enters an operation: _send(f, *data) starts
Enter(c) ==
    /\ pc = "idle"
    /\ nOps < MaxOps
    /\ op' = c
    /\ flat' = flatten(c.data)
    /\ frame' = Frame(c.f, c.data)
    /\ pc' = SendEntry
    /\ nOps' = nOps + 1
    /\ polls' = 0
    /\ pendingAtStart' = Len(rcvbuf)
    /\ drained' = 0
    /\ late' = FALSE
    /\ rbuf' = <<>>
    /\ outcome' = Result("pending", <<>>)
    /\ prevKind' = outcome.kind
    /\ steps' = <<"drain">>
    /\ UNCHANGED <<lastSent, rcvbuf, net, peerClosed, nSent, lastFrame, handled,
                   curReply, nJunk, ioFailed, nReads>>

\* drain: select with a zero timeout; leave the loop when nothing is readable
DrainPoll ==
    /\ pc = "poll"
    /\ polls' = Min(polls + 1, MaxPolls)
    /\ pc' = IF select(rcvbuf, AtEOF) THEN "recv" ELSE "write"
    /\ UNCHANGED <<op, frame, flat, lastSent, rcvbuf, net, peerClosed, nSent, lastFrame,
                   handled, curReply, rbuf, outcome, nOps, pendingAtStart,
                   drained, late, nJunk, ioFailed>>
    /\ UNCHANGED argVars
    /\ UNCHANGED histVars

\* drain: recv(1500) and discard, then poll again; at end of stream recv
\* returns no bytes
DrainRecv ==
    /\ pc = "recv"
    /\ rcvbuf' = Drop(rcvbuf, RecvSize)
    /\ drained' = drained + Len(Take(rcvbuf, RecvSize))
    /\ pc' = "poll"
    /\ UNCHANGED <<op, frame, flat, lastSent, net, peerClosed, nSent, lastFrame, handled,
                   curReply, rbuf, outcome, nOps, polls, pendingAtStart, late,
                   nJunk, ioFailed>>
    /\ UNCHANGED argVars
    /\ UNCHANGED histVars

\* a _send that writes the buffer of the request before, when there is one
SentBytes_stale(s, last) == IF last = <<>> THEN s ELSE last

\* the bytes _send hands to sendall
SentBytes(s, last) == s

\* a _send that leaves lastSent as it was
Remembered_stale(s, last) == last

\* what _send stores in lastSent before sendall
Remembered(s, last) == s

\* a sendReceiveBool that sends the request itself before it hands it to
\* sendReceive, which sends it again
AfterSend_resend(name, done) ==
    IF name = "_send" THEN "idle"
    ELSE IF name = "sendReceiveBool" /\ Len(done) < 3 THEN "write"
    ELSE "read"

\* where an operation is once its _send has returned: every other operation
\* calls _receive next, itself or in the operation it hands the request to
AfterSend(name, done) == IF name = "_send" THEN "idle" ELSE "read"

\* steps with the start of a reply read recorded, once per read
Reading(done) == IF done[Len(done)] = "read" THEN done ELSE Append(done, "read")

\* the number of reads started, likewise
ReadsWith(done, n) == IF done[Len(done)] = "read" THEN n ELSE n + 1

\* _send after the drain: lastSent = s; sendall(s).  _send itself returns
\* here; the other operations go on to _receive
Write ==
    /\ pc = "write"
    /\ lastSent' = Remembered(frame, lastSent)
    /\ lastFrame' = SentBytes(frame, lastSent)
    /\ nSent' = nSent + 1
    /\ steps' = Append(steps, "write")
    /\ pc' = AfterSend(op.name, steps')
    /\ outcome' = IF pc' = "idle" THEN Result("returned", <<>>) ELSE outcome
    /\ curReply' = <<>>
    /\ UNCHANGED <<op, frame, flat, rcvbuf, net, peerClosed, handled, rbuf, nOps,
                   polls, pendingAtStart, drained, late, nJunk, ioFailed,
                   prevKind, nReads>>
    /\ UNCHANGED argVars

\* sendall raises OSError: the peer has closed and reset the connection
WriteFail ==
    /\ pc = "write"
    /\ peerClosed
    /\ lastSent' = Remembered(frame, lastSent)
    /\ pc' = "idle"
    /\ outcome' = Result("OSError", <<>>)
    /\ ioFailed' = TRUE
    /\ UNCHANGED <<op, frame, flat, rcvbuf, net, peerClosed, nSent, lastFrame, handled,
                   curReply, rbuf, nOps, polls, pendingAtStart, drained, late,
                   nJunk>>
    /\ UNCHANGED argVars
    /\ UNCHANGED histVars

\* _receive: readline on a new file object reads what the socket holds, up to
\* the buffer size, until it has a newline; the bytes read after the newline
\* go with the file object
ReadChunk ==
    /\ pc = "read"
    /\ rcvbuf # <<>>
    /\ LET acc == rbuf \o Take(rcvbuf, ReadSize)
           i == Find(Chars(acc), NL)
       IN /\ rbuf' = acc
          /\ rcvbuf' = Drop(rcvbuf, ReadSize)
          /\ IF i = 0
                THEN pc' = "read" /\ outcome' = outcome
                ELSE /\ pc' = "idle"
                     /\ outcome' = _receive(op, Chars(SubSeq(acc, 1, i)), lastSent)
    /\ UNCHANGED <<op, frame, flat, lastSent, net, peerClosed, nSent, lastFrame, handled,
                   curReply, nOps, polls, pendingAtStart, drained, late, nJunk,
                   ioFailed>>
    /\ steps' = Reading(steps)
    /\ nReads' = ReadsWith(steps, nReads)
    /\ UNCHANGED prevKind
    /\ UNCHANGED argVars

\* _receive at end of stream: readline returns what it has, without a newline
ReadEOF ==
    /\ pc = "read"
    /\ rcvbuf = <<>>
    /\ AtEOF
    /\ pc' = "idle"
    /\ outcome' = _receive(op, Chars(rbuf), lastSent)
    /\ UNCHANGED <<op, frame, flat, lastSent, rcvbuf, net, peerClosed, nSent, lastFrame,
                   handled, curReply, rbuf, nOps, polls, pendingAtStart, drained,
                   late, nJunk, ioFailed>>
    /\ steps' = Reading(steps)
    /\ nReads' = ReadsWith(steps, nReads)
    /\ UNCHANGED prevKind
    /\ UNCHANGED argVars

\* _receive: nothing arrives within the socket's timeout and recv raises
ReadTimeout ==
    /\ pc = "read"
    /\ rcvbuf = <<>>
    /\ ~AtEOF
    /\ pc' = "idle"
    /\ outcome' = Result("timeout", <<>>)
    /\ ioFailed' = TRUE
    /\ UNCHANGED <<op, frame, flat, lastSent, rcvbuf, net, peerClosed, nSent, lastFrame,
                   handled, curReply, rbuf, nOps, polls, pendingAtStart, drained,
                   late, nJunk>>
    /\ steps' = Reading(steps)
    /\ nReads' = ReadsWith(steps, nReads)
    /\ UNCHANGED prevKind
    /\ UNCHANGED argVars

-----------------------------------------------------------------------------
(* The remote end and the network *)

\* the remote answers the oldest frame it has not answered with the line t
RemoteReply(t) ==
    /\ ~peerClosed
    /\ handled < nSent
    /\ net' = net \o Tagged(t \o <<NL>>, handled + 1)
    /\ handled' = handled + 1
    /\ curReply' = IF handled + 1 = nSent THEN <<t>> ELSE curReply
    /\ UNCHANGED <<pc, op, frame, flat, lastSent, rcvbuf, peerClosed, nSent, lastFrame, rbuf,
                   outcome, nOps, polls, pendingAtStart, drained, late, nJunk,
                   ioFailed>>
    /\ UNCHANGED argVars
    /\ UNCHANGED histVars

\* the remote sends bytes nobody asked for
RemoteJunk(t) ==
    /\ ~peerClosed
    /\ nJunk < MaxJunk
    /\ net' = net \o Tagged(t, 0)
    /\ nJunk' = nJunk + 1
    /\ UNCHANGED <<pc, op, frame, flat, lastSent, rcvbuf, peerClosed, nSent, lastFrame,
                   handled, curReply, rbuf, outcome, nOps, polls, pendingAtStart,
                   drained, late, ioFailed>>
    /\ UNCHANGED argVars
    /\ UNCHANGED histVars

\* the remote closes the stream
RemoteClose ==
    /\ ~peerClosed
    /\ peerClosed' = TRUE
    /\ UNCHANGED <<pc, op, frame, flat, lastSent, rcvbuf, net, nSent, lastFrame, handled,
                   curReply, rbuf, outcome, nOps, polls, pendingAtStart, drained,
                   late, nJunk, ioFailed>>
    /\ UNCHANGED argVars
    /\ UNCHANGED histVars

\* the request the client is waiting on once its drain has ended
Awaited == IF pc = "read" THEN nSent ELSE nSent + 1

\* the network delivers the bytes in flight to the socket
Deliver ==
    /\ net # <<>>
    /\ rcvbuf' = rcvbuf \o net
    /\ net' = <<>>
    /\ late' = (late \/ (/\ pc \in {"write", "read"}
                         /\ \E i \in 1..Len(net) : net[i][2] # Awaited))
    /\ UNCHANGED <<pc, op, frame, flat, lastSent, peerClosed, nSent, lastFrame,
                   handled, curReply, rbuf, outcome, nOps, polls,
                   pendingAtStart, drained, nJunk, ioFailed>>
    /\ UNCHANGED argVars
    /\ UNCHANGED histVars

-----------------------------------------------------------------------------
(* Spec: one caller, the remote and the network *)

T_ok == <<"o", "k">>

\* the lines the remote answers with
ReplyTexts == {RequestFailed, <<>>, T_ok}

\* what the remote sends unasked: a whole line, or bytes without a newline
JunkTexts == {<<"x", NL>>, <<"y">>}

\* the calls the caller makes
Calls ==
    { MkOp("_send", <<"p", "o", "s", "t">>, <<PyStr(<<"h", "i">>)>>, "int", <<"|">>, -1, 0),
      MkOp("sendReceive", <<"g", "e", "t">>, <<PyInt(1), PyNone>>, "int", <<"|">>, -1, 0) }

\* the Connection after __init__, on a socket that holds the bytes buf
Connected(buf) ==
    /\ pc = "idle"
    /\ op = NoOp
    /\ frame = <<>>
    /\ flat = <<>>
    /\ lastSent = <<>>
    /\ rcvbuf = buf
    /\ net = <<>>
    /\ peerClosed = FALSE
    /\ nSent = 0
    /\ lastFrame = <<>>
    /\ handled = 0
    /\ curReply = <<>>
    /\ rbuf = <<>>
    /\ outcome = Result("pending", <<>>)
    /\ nOps = 0
    /\ polls = 0
    /\ pendingAtStart = 0
    /\ drained = 0
    /\ late = FALSE
    /\ nJunk = 0
    /\ ioFailed = FALSE
    /\ prevKind = "none"
    /\ steps = <<>>
    /\ nReads = 0

ArgsIdle ==
    /\ stack = <<<<>>>>
    /\ atomLog = <<>>
    /\ tokens = 0
    /\ raw = <<>>

\* an environment variable: whether it is set, and its text
EnvVar(isSet, text) == [isSet |-> isSet, text |-> text]

NotSet == EnvVar(FALSE, <<>>)

\* os.environ without the two variables create reads
NoEnviron == [JRP_API_HOST |-> NotSet, JRP_API_PORT |-> NotSet]

\* the defaults of Minecraft.create
DefaultAddress == <<"l", "o", "c", "a", "l", "h", "o", "s", "t">>
DefaultPort == 4711

\* a method of Minecraft in progress: its name and argument, and what the
\* number of frames written and _playerName were when it was called
McCall(name, arg, at, was) == [name |-> name, arg |-> arg, at |-> at, was |-> was]

NoCall == McCall("none", <<>>, 0, PyNone)

\* what a method of Minecraft gave back: the call it answers, the kind of
\* value or exception, the value, and the frames written meanwhile
Ret(call, kind, val, frames) ==
    [call |-> call, kind |-> kind, val |-> val, frames |-> frames]

NoRet == Ret(NoCall, "pending", <<>>, 0)

\* a Minecraft made by create() with its defaults and the player name p,
\* no method of it called yet
McMade(p) ==
    /\ environ = NoEnviron
    /\ target = [address |-> DefaultAddress, port |-> DefaultPort]
    /\ _playerName = p
    /\ mcall = NoCall
    /\ mret = NoRet

Init == Connected(<<>>) /\ ArgsIdle /\ McMade(PyNone)

Call(c) == Enter(c) /\ UNCHANGED argVars

Next ==
    \/ \E c \in Calls : Call(c)
    \/ DrainPoll
    \/ DrainRecv
    \/ Write
    \/ WriteFail
    \/ ReadChunk
    \/ ReadEOF
    \/ ReadTimeout
    \/ \E t \in ReplyTexts : RemoteReply(t)
    \/ \E t \in JunkTexts : RemoteJunk(t)
    \/ RemoteClose
    \/ Deliver

Spec == Init /\ [][Next]_vars

-----------------------------------------------------------------------------
(* SpecEnc: a caller that builds argument tuples and sends them *)

\* an atom a caller can pass, with its textual form written out
Atom(v, t) == [v |-> v, t |-> t]

A_1 == Atom(PyInt(1), <<"1">>)
A_None == Atom(PyNone, <<"N", "o", "n", "e">>)
A_x == Atom(PyStr(<<"x">>), <<"x">>)
A_ab ==
    Atom(PyStr(<<"a", "b">>), <<"a", "b">>)

AtomChoices == {A_1, A_None, A_x}

\* [1, [2, [3, "ab"]], 4]
Ex1Args ==
    <<PyInt(1),
      PyList(<<PyInt(2), PyList(<<PyInt(3), PyStr(<<"a", "b">>)>>)>>),
      PyInt(4)>>

Ex1Log ==
    <<A_1, Atom(PyInt(2), <<"2">>), Atom(PyInt(3), <<"3">>), A_ab,
      Atom(PyInt(4), <<"4">>)>>

\* [-12, [], ["ab", None], 305]
Ex2Args ==
    <<PyInt(-12), PyList(<<>>), PyList(<<PyStr(<<"a", "b">>), PyNone>>), PyInt(305)>>

Ex2Log ==
    <<Atom(PyInt(-12), <<"-", "1", "2">>), A_ab, A_None,
      Atom(PyInt(305), <<"3", "0", "5">>)>>

CommandNames == {<<"c", "m", "d">>, <<"w", ".", "s", "B">>}

\* the remote may have sent bytes before the first request
InitEnc ==
    /\ \E buf \in {<<>>, Tagged(<<"y">>, 0)} : Connected(buf)
    /\ raw = <<>>
    /\ \/ stack = <<<<>>>> /\ atomLog = <<>> /\ tokens = 0
       \/ stack = <<Ex1Args>> /\ atomLog = Ex1Log /\ tokens = MaxTokens
       \/ stack = <<Ex2Args>> /\ atomLog = Ex2Log /\ tokens = MaxTokens
    /\ McMade(PyNone)

\* the caller puts an atom at the end of the innermost open sequence
PushAtom(a) ==
    /\ pc = "idle"
    /\ tokens < MaxTokens
    /\ stack' = [stack EXCEPT ![Len(stack)] = Append(@, a.v)]
    /\ atomLog' = Append(atomLog, a)
    /\ tokens' = tokens + 1
    /\ UNCHANGED raw
    /\ UNCHANGED connVars
    /\ UNCHANGED mcVars

\* the caller opens a nested sequence
OpenList ==
    /\ pc = "idle"
    /\ tokens < MaxTokens
    /\ Len(stack) <= MaxDepth
    /\ stack' = Append(stack, <<>>)
    /\ tokens' = tokens + 1
    /\ UNCHANGED <<atomLog, raw>>
    /\ UNCHANGED connVars
    /\ UNCHANGED mcVars

\* the caller closes the innermost open sequence
CloseList ==
    /\ pc = "idle"
    /\ Len(stack) > 1
    /\ LET n == Len(stack) IN
       stack' = [SubSeq(stack, 1, n - 1) EXCEPT ![n - 1] = Append(@, PyList(stack[n]))]
    /\ UNCHANGED <<atomLog, tokens, raw>>
    /\ UNCHANGED connVars
    /\ UNCHANGED mcVars

\* the caller starts a new argument tuple
NewArgs ==
    /\ pc = "idle"
    /\ tokens > 0
    /\ stack' = <<<<>>>>
    /\ atomLog' = <<>>
    /\ tokens' = 0
    /\ UNCHANGED raw
    /\ UNCHANGED connVars
    /\ UNCHANGED mcVars

\* the caller calls _send(f, *data) with the tuple it built
CallBuilt(f) ==
    /\ Len(stack) = 1
    /\ Enter(MkOp("_send", f, stack[1], "int", <<"|">>, -1, 0))
    /\ UNCHANGED argVars

NextEnc ==
    \/ \E a \in AtomChoices : PushAtom(a)
    \/ OpenList
    \/ CloseList
    \/ NewArgs
    \/ \E f \in CommandNames : CallBuilt(f)
    \/ DrainPoll
    \/ DrainRecv
    \/ Write

SpecEnc == InitEnc /\ [][NextEnc]_vars

-----------------------------------------------------------------------------
(* SpecDec: reply lines, and every operation's reading of them *)

MaxRaw == 5

ReplyAlphabet == {"1", ",", ".", "-", "|", "b"}

T_Failure == <<"F", "a", "i", "l", "u", "r", "e">>
T_true == <<"t", "r", "u", "e">>
T_True == <<"T", "r", "u", "e">>
T_false == <<"f", "a", "l", "s", "e">>
T_bad == <<"1", ".", "0", ",", "2", ".", "0", ",", "b", "a", "d">>
T_pairs == <<"1", "0", ",", "2", "0", "|", "3", "0", ",", "4", "0">>
T_four == <<"1", ",", "2", ",", "3", ",", "4">>
T_chat == <<"b", ",", "7", ",", "b", ",", "b">>
T_zero == <<"0">>

SeedLines == {<<>>, RequestFailed, T_Failure, T_true, T_True, T_false, T_bad,
              T_pairs, T_four, T_chat, T_zero}

DecCalls ==
    { MkOp("sendReceive", <<"g">>, <<>>, "int", <<"|">>, -1, 0),
      MkOp("sendReceiveList", <<"g">>, <<>>, "int", <<>>, -1, 0),
      MkOp("sendReceiveList", <<"g">>, <<>>, "int", <<",">>, -1, 0),
      MkOp("sendReceiveScalar", <<"g">>, <<>>, "int", <<"|">>, -1, 0),
      MkOp("sendReceiveScalar", <<"g">>, <<>>, "float", <<"|">>, -1, 0),
      MkOp("sendReceiveBool", <<"g">>, <<>>, "int", <<"|">>, -1, 0),
      MkOp("sendReceiveVec3", <<"g">>, <<>>, "int", <<"|">>, -1, 0),
      MkOp("sendReceiveVec3", <<"g">>, <<>>, "float", <<"|">>, -1, 0),
      MkOp("sendReceiveObjectList", <<"g">>, <<>>, "int", <<"|">>, -1, 2),
      MkOp("sendReceiveObjectList", <<"g">>, <<>>, "int", <<"|">>, 2, 3) }

InitDec ==
    /\ Connected(<<>>)
    /\ stack = <<<<>>>>
    /\ atomLog = <<>>
    /\ tokens = 0
    /\ raw \in SeedLines
    /\ McMade(PyNone)

\* the remote adds a character to the line it will answer with
Type(c) ==
    /\ pc = "idle"
    /\ outcome.kind = "pending"
    /\ Len(raw) < MaxRaw
    /\ raw' = Append(raw, c)
    /\ UNCHANGED <<stack, atomLog, tokens>>
    /\ UNCHANGED connVars
    /\ UNCHANGED mcVars

\* the operation c reads the line: _receive and the operation's decoding
Receive(c) ==
    /\ pc = "idle"
    /\ outcome.kind = "pending"
    /\ op' = c
    /\ frame' = Frame(c.f, c.data)
    /\ lastSent' = Frame(c.f, c.data)
    /\ outcome' = _receive(c, raw \o <<NL>>, lastSent')
    /\ UNCHANGED <<pc, flat, rcvbuf, net, peerClosed, nSent, lastFrame, handled,
                   curReply, rbuf, nOps, polls, pendingAtStart, drained, late,
                   nJunk, ioFailed>>
    /\ UNCHANGED argVars
    /\ UNCHANGED histVars

NextDec ==
    \/ \E c \in ReplyAlphabet : Type(c)
    \/ \E c \in DecCalls : Receive(c)

SpecDec == InitDec /\ [][NextDec]_vars

-----------------------------------------------------------------------------
(* SpecCreate: Minecraft.create under the environments it can find *)

\* a create that falls back to 4711, not to the port it was given
create_default(env, address, port) ==
    [address |-> IF env.JRP_API_HOST.isSet THEN env.JRP_API_HOST.text ELSE address,
     port |-> IF env.JRP_API_PORT.isSet
                 THEN (IF IntParses(env.JRP_API_PORT.text)
                          THEN IntValue(env.JRP_API_PORT.text).n
                          ELSE DefaultPort)
                 ELSE port]

\* Minecraft.create: the address and port it hands to Connection
create(env, address, port) ==
    [address |-> IF env.JRP_API_HOST.isSet THEN env.JRP_API_HOST.text ELSE address,
     port |-> IF env.JRP_API_PORT.isSet /\ IntParses(env.JRP_API_PORT.text)
                 THEN IntValue(env.JRP_API_PORT.text).n
                 ELSE port]

HostTexts == {<<"h", "1">>, <<>>}

PortTexts == {<<"2", "5">>, <<"-", "1">>, <<"x">>, <<>>, <<"2", "x">>, <<"2", ".", "5">>}

Environs ==
    [JRP_API_HOST : {NotSet} \cup {EnvVar(TRUE, t) : t \in HostTexts},
     JRP_API_PORT : {NotSet} \cup {EnvVar(TRUE, t) : t \in PortTexts}]

Addresses == {DefaultAddress, <<"h", "2">>}

Ports == {DefaultPort, 9}

PlayerNames == {PyNone, PyStr(<<"a", "l">>)}

\* before create is called; the fields of the Connection it will make hold
\* the values __init__ gives them
InitCreate ==
    /\ Connected(<<>>)
    /\ ArgsIdle
    /\ environ \in Environs
    /\ target = [address |-> <<>>, port |-> 0]
    /\ _playerName = PyNone
    /\ mcall = McCall("new", <<>>, 0, PyNone)
    /\ mret = NoRet

\* Minecraft.create(address, port, playerName)
Create(address, port, playerName) ==
    /\ mcall.name = "new"
    /\ target' = create(environ, address, port)
    /\ _playerName' = playerName
    /\ mcall' = McCall("create", <<address, port>>, 0, PyNone)
    /\ mret' = Ret(mcall', "Minecraft", <<>>, 0)
    /\ UNCHANGED <<stack, atomLog, tokens, raw, environ>>
    /\ UNCHANGED connVars

NextCreate ==
    \E address \in Addresses, port \in Ports, playerName \in PlayerNames :
        Create(address, port, playerName)

SpecCreate == InitCreate /\ [][NextCreate]_vars

-----------------------------------------------------------------------------
(* SpecMc: the methods of Minecraft that keep the player name, and a poll *)

T_none == <<"(", "n", "o", "n", "e", ")">>

\* the lines the remote answers with
McReplies == {T_true, T_none, RequestFailed, <<"b", "o">>}

\* the names a caller gives setPlayer
Names == {<<"a", "l">>, <<>>}

\* a test for a name kept that asks "is not None"
Truthy_notNone(v) == v.k = "str"

\* the truth value of _playerName in "if self._playerName"
Truthy(v) == v.k = "str" /\ v.s # <<>>

InitMc ==
    /\ Connected(<<>>)
    /\ ArgsIdle
    /\ \E p \in PlayerNames : McMade(p)

\* Minecraft.setPlayer(name), up to the request
SetPlayer(name) ==
    /\ mcall = NoCall
    /\ Enter(MkOp("sendReceiveBool", <<"s", "e", "t", "P", "l", "a", "y", "e", "r">>,
                  <<PyStr(name)>>, "int", <<"|">>, -1, 0))
    /\ mcall' = McCall("setPlayer", name, nSent, _playerName)
    /\ UNCHANGED <<stack, atomLog, tokens, raw, environ, target, _playerName, mret>>

\* Minecraft.setPlayer once sendReceiveBool has returned or raised
SetPlayerEnd ==
    /\ mcall.name = "setPlayer"
    /\ pc = "idle"
    /\ outcome.kind # "pending"
    /\ IF outcome.kind = "bool"
          THEN /\ _playerName' = IF outcome.val[1] THEN PyStr(mcall.arg) ELSE PyNone
               /\ mret' = Ret(mcall, "bool", outcome.val, nSent - mcall.at)
          ELSE /\ _playerName' = _playerName
               /\ mret' = Ret(mcall, outcome.kind, <<>>, nSent - mcall.at)
    /\ mcall' = NoCall
    /\ UNCHANGED <<stack, atomLog, tokens, raw, environ, target>>
    /\ UNCHANGED connVars

\* Minecraft.getPlayerName with a name kept: no request
GetPlayerNameKept ==
    /\ mcall = NoCall
    /\ pc = "idle"
    /\ Truthy(_playerName)
    /\ mret' = Ret(McCall("getPlayerName", <<>>, nSent, _playerName),
                   "str", _playerName.s, 0)
    /\ UNCHANGED <<stack, atomLog, tokens, raw, environ, target, _playerName, mcall>>
    /\ UNCHANGED connVars

\* Minecraft.getPlayerName without one, up to the request
GetPlayerName ==
    /\ mcall = NoCall
    /\ ~Truthy(_playerName)
    /\ Enter(MkOp("sendReceive", <<"g", "e", "t", "P", "l", "a", "y", "e", "r">>,
                  <<>>, "int", <<"|">>, -1, 0))
    /\ mcall' = McCall("getPlayerName", <<>>, nSent, _playerName)
    /\ UNCHANGED <<stack, atomLog, tokens, raw, environ, target, _playerName, mret>>

\* Minecraft.getPlayerName once sendReceive has returned or raised
GetPlayerNameEnd ==
    /\ mcall.name = "getPlayerName"
    /\ pc = "idle"
    /\ outcome.kind # "pending"
    /\ mret' = IF outcome.kind = "str"
                  THEN (IF outcome.val = T_none
                           THEN Ret(mcall, "None", <<>>, nSent - mcall.at)
                           ELSE Ret(mcall, "str", outcome.val, nSent - mcall.at))
                  ELSE Ret(mcall, outcome.kind, <<>>, nSent - mcall.at)
    /\ mcall' = NoCall
    /\ UNCHANGED <<stack, atomLog, tokens, raw, environ, target, _playerName>>
    /\ UNCHANGED connVars

\* CmdEvents.pollChatPosts, up to the request
PollChatPosts ==
    /\ mcall = NoCall
    /\ Enter(MkOp("sendReceiveObjectList", <<"e", ".", "c", ".", "p">>,
                  <<>>, "int", <<"|">>, 2, 3))
    /\ mcall' = McCall("pollChatPosts", <<>>, nSent, _playerName)
    /\ UNCHANGED <<stack, atomLog, tokens, raw, environ, target, _playerName, mret>>

\* CmdEvents.pollChatPosts once sendReceiveObjectList has returned or raised
PollChatPostsEnd ==
    /\ mcall.name = "pollChatPosts"
    /\ pc = "idle"
    /\ outcome.kind # "pending"
    /\ mret' = Ret(mcall, outcome.kind, <<>>, nSent - mcall.at)
    /\ mcall' = NoCall
    /\ UNCHANGED <<stack, atomLog, tokens, raw, environ, target, _playerName>>
    /\ UNCHANGED connVars

NextMc ==
    \/ \E name \in Names : SetPlayer(name)
    \/ SetPlayerEnd
    \/ GetPlayerNameKept
    \/ GetPlayerName
    \/ GetPlayerNameEnd
    \/ PollChatPosts
    \/ PollChatPostsEnd
    \/ DrainPoll
    \/ DrainRecv
    \/ Write
    \/ ReadChunk
    \/ ReadTimeout
    \/ \E t \in McReplies : RemoteReply(t)
    \/ Deliver

SpecMc == InitMc /\ [][NextMc]_vars

-----------------------------------------------------------------------------
(* Fair behaviours: the client's code keeps running *)

SpecFair ==
    /\ Spec
    /\ WF_vars(DrainPoll)
    /\ WF_vars(DrainRecv)
    /\ WF_vars(Write)
    /\ WF_vars(ReadChunk)

-----------------------------------------------------------------------------
(* Properties *)

\* the kinds of outcome in which an operation hands a value to its caller
ValueKinds == {"returned", "str", "list", "bool", "scalar", "None", "Vec3", "objs"}

\* a send-and-receive operation has ended on a line that readline returned
LineReturned ==
    /\ pc = "idle"
    /\ op.name \notin {"none", "_send"}
    /\ outcome.kind \notin {"pending", "timeout", "OSError"}

\* readline ended at a newline, not at the end of the stream
EndedAtNewline == Find(Chars(rbuf), NL) # 0

\* C1: in every send-and-receive operation the reply line "Fail", and no
\* other line, ends the operation with RequestError and without a decoded
\* value; sendReceive returns every other line as it is.
C1_SentinelExact ==
    outcome.kind # "pending" =>
        /\ (raw = RequestFailed) <=> (outcome.kind = "RequestError")
        /\ (raw # RequestFailed /\ op.name = "sendReceive") =>
               outcome = Result("str", raw)

C1_Witness ==
    /\ raw = RequestFailed
    /\ op.name = "sendReceiveObjectList"
    /\ outcome.kind = "RequestError"

\* the atom log is that of the arguments of the _send that has just returned
Sent ==
    /\ pc = "idle"
    /\ op.name = "_send"
    /\ outcome.kind = "returned"
    /\ Len(stack) = 1
    /\ stack[1] = op.data

\* texts joined by commas, built from the last text backwards
RECURSIVE CommaList(_)
CommaList(texts) ==
    IF Len(texts) = 0 THEN <<>>
    ELSE IF Len(texts) = 1 THEN texts[1]
    ELSE CommaList(SubSeq(texts, 1, Len(texts) - 1)) \o <<",">> \o texts[Len(texts)]

ExpectedFrame(f, texts) == f \o <<"(">> \o CommaList(texts) \o <<")", NL>>

\* the text of an atom when an absent value is written as nothing
TextNoneEmpty(a) == IF a.v.k = "none" THEN <<>> ELSE a.t

TextOfAtom(a) == a.t

\* C2: an absent (None) argument is written into the frame as empty text
\* between the commas, never as a token such as "None".
C2_NoneIsEmpty ==
    Sent => lastFrame = ExpectedFrame(op.f, Map(TextNoneEmpty, atomLog))

\* C3: the frame _send writes is command "(" the textual forms of the
\* flattened arguments joined by "," ")" newline, whatever was sent before,
\* whatever lastSent held and whatever was drained.
C3_FrameDetermined ==
    Sent => lastFrame = ExpectedFrame(op.f, Map(TextOfAtom, atomLog))

C3_Witness ==
    /\ Sent
    /\ nSent = 2
    /\ Len(atomLog) = 2
    /\ atomLog[2] = A_x

AtomValue(a) == a.v

\* C4: flatten yields the atoms of its input in depth-first left-to-right
\* order, each once, a text as one atom.
C4_FlattenOrder ==
    pc # "idle" => flat = Map(AtomValue, atomLog)

C4_Witness ==
    /\ pc = "write"
    /\ op.data = Ex1Args
    /\ flat = <<PyInt(1), PyInt(2), PyInt(3), PyStr(<<"a", "b">>), PyInt(4)>>

\* the line returned is the remote's answer to the frame this operation wrote
OwnReply ==
    /\ \A i \in 1..Find(Chars(rbuf), NL) : rbuf[i][2] = nSent
    /\ curReply = <<Chars(LineBytes)>>

\* C5 as claimed: under every interleaving, the line a send-and-receive
\* operation returns is the remote's reply to the request it wrote.
C5_ReplyIsOwn ==
    (LineReturned /\ EndedAtNewline) => OwnReply

\* C5: when no byte of another exchange reaches the socket after the
\* drain's last poll, the line a send-and-receive operation returns is the
\* remote's reply to the request it wrote.
C5_ReplyIsOwnUnlessLate ==
    (LineReturned /\ EndedAtNewline /\ ~late) => OwnReply

C5_Witness ==
    /\ LineReturned
    /\ EndedAtNewline
    /\ ~late
    /\ drained > 0
    /\ nSent = 2
    /\ outcome = Result("str", T_ok)

\* C6: a frame is written only by an operation whose drain has discarded
\* what was buffered and has ended on a poll that found nothing readable,
\* and never while the drain is running.
C6_DrainBeforeWrite ==
    [][ /\ (nSent' # nSent) =>
               (pc = "write" /\ polls >= 1 /\ drained >= pendingAtStart)
        /\ (pc' = "write" /\ pc # "write") =>
               (pc = "poll" /\ rcvbuf = <<>> /\ ~AtEOF /\ nSent' = nSent)
        /\ (pc \in {"poll", "recv"}) => (nSent' = nSent) ]_vars

C6_Witness ==
    /\ pc = "read"
    /\ drained > 0
    /\ polls >= 2

\* C7: once an operation has ended with an I/O error or a timeout, no later
\* operation on the Connection completes successfully.
C7_FailedIsTerminal ==
    (ioFailed /\ pc = "idle") => outcome.kind \notin ValueKinds

\* C8: when the stream ends before a complete reply line, the waiting
\* operation does not return a value.
C8_EOFIsError ==
    (LineReturned /\ outcome.kind \in ValueKinds) => EndedAtNewline

\* C9: every drain terminates, and a drain that finds nothing buffered makes
\* one poll and consumes nothing.
C9_DrainTerminates ==
    /\ [](pc \in {"poll", "recv"} => <>(pc \notin {"poll", "recv"}))
    /\ [][ (pc = "poll" /\ polls = 0 /\ ~select(rcvbuf, AtEOF) /\ pc' # pc) =>
               (pc' = "write" /\ polls' = 1 /\ drained' = 0 /\ rcvbuf' = rcvbuf) ]_vars

\* the fields of the reply line
Vec3Fields == split(raw, <<",">>, -1)

\* C10: for every reply but the sentinel, sendReceiveVec3 returns the vector
\* of the converter's results for exactly three fields, or None; it never
\* raises and never returns a vector with fewer components.
C10_Vec3OrNone ==
    (outcome.kind # "pending" /\ op.name = "sendReceiveVec3" /\ raw # RequestFailed) =>
        \/ outcome.kind = "None"
        \/ /\ outcome.kind = "Vec3"
           /\ Len(Vec3Fields) = 3
           /\ \A i \in 1..3 :
                 /\ ~Raises(op.converter, Vec3Fields[i])
                 /\ outcome.val[i] = Convert(op.converter, Vec3Fields[i])

\* the frame of the operation in progress, without its newline
OwnRequest == SubSeq(Frame(op.f, op.data), 1, Len(Frame(op.f, op.data)) - 1)

\* C11: while an operation waits for its reply, lastSent is the frame that
\* operation wrote, and a RequestError carries the text of that frame, not
\* of an earlier request.
C11_ErrorNamesOwnFrame ==
    /\ pc = "read" => (lastSent = lastFrame /\ lastFrame = OwnRequest \o <<NL>>)
    /\ (LineReturned /\ outcome.kind = "RequestError") =>
           outcome.val = <<"b", "'">> \o OwnRequest
                            \o <<"'", " ", "f", "a", "i", "l", "e", "d">>

C11_Witness ==
    /\ LineReturned
    /\ outcome.kind = "RequestError"
    /\ prevKind = "returned"
    /\ nSent = 2
    /\ lastFrame # <<"p", "o", "s", "t", "(", "h", "i", ")", NL>>

\* C12: the operation that follows one ended by RequestError runs as on a
\* new Connection: it drains, writes its own frame and, when no byte of
\* another exchange arrives late, returns its own reply decoded, whatever
\* the failed request was.
C12_RequestErrorRecoverable ==
    prevKind = "RequestError" =>
        /\ pc = "idle" => outcome.kind # "pending"
        /\ pc \in {"write", "read"} => (polls >= 1 /\ drained >= pendingAtStart)
        /\ pc = "read" => lastFrame = OwnRequest \o <<NL>>
        /\ (pc = "idle" /\ op.name = "_send") =>
               (outcome.kind \in {"returned", "OSError"})
        /\ (LineReturned /\ EndedAtNewline /\ ~late) =>
               /\ OwnReply
               /\ IF Chars(LineBytes) = RequestFailed
                     THEN outcome.kind = "RequestError"
                     ELSE outcome = Result("str", Chars(LineBytes))

C12_Witness ==
    /\ prevKind = "RequestError"
    /\ LineReturned
    /\ EndedAtNewline
    /\ ~late
    /\ nSent = 2
    /\ outcome = Result("str", T_ok)

\* number of places where the character c stands in the text t
Count(t, c) == Cardinality({i \in 1..Len(t) : t[i] = c})

\* texts put together with sep between them, from the last one backwards
RECURSIVE JoinedBy(_, _)
JoinedBy(sep, texts) ==
    IF Len(texts) = 0 THEN <<>>
    ELSE IF Len(texts) = 1 THEN texts[1]
    ELSE JoinedBy(sep, SubSeq(texts, 1, Len(texts) - 1)) \o sep \o texts[Len(texts)]

\* the separator of the sendReceiveList in progress
ListSep == IF op.sep = <<>> THEN <<"|">> ELSE op.sep

\* C13: sendReceiveList returns the empty list for the empty reply, and for
\* every other reply but the sentinel the fields between the separators, in
\* order; the separator is "|" when the caller gives none.
C13_ListDecode ==
    (outcome.kind # "pending" /\ op.name = "sendReceiveList" /\ raw # RequestFailed) =>
        /\ outcome.kind = "list"
        /\ raw = <<>> => outcome.val = <<>>
        /\ raw # <<>> =>
              /\ Len(outcome.val) = Count(raw, ListSep[1]) + 1
              /\ JoinedBy(ListSep, outcome.val) = raw
              /\ \A i \in 1..Len(outcome.val) : Count(outcome.val[i], ListSep[1]) = 0

C13_Witness ==
    /\ op.name = "sendReceiveList"
    /\ op.sep = <<>>
    /\ raw = <<>>
    /\ outcome = Result("list", <<>>)

\* the place of the k-th c in t; 0 for k = 0, past the end when there is none
NthPos(t, c, k) ==
    IF k = 0 THEN 0
    ELSE IF k > Count(t, c) THEN Len(t) + 1
    ELSE CHOOSE i \in 1..Len(t) :
            t[i] = c /\ Cardinality({j \in 1..i : t[j] = c}) = k

\* the k-th piece of t between the places where c stands
Piece(t, c, k) == SubSeq(t, NthPos(t, c, k - 1) + 1, NthPos(t, c, k) - 1)

\* the elements of the reply line
NElements == IF raw = <<>> THEN 0 ELSE Count(raw, "|") + 1

Element(i) == Piece(raw, "|", i)

\* the number of fields an element is cut into
NFields(el) ==
    IF op.maxsplit < 0 THEN Count(el, ",") + 1
    ELSE Min(Count(el, ","), op.maxsplit) + 1

\* the j-th field of an element: the last of them keeps what is left
Field(el, j) ==
    IF j < NFields(el) THEN Piece(el, ",", j)
    ELSE SubSeq(el, NthPos(el, ",", j - 1) + 1, Len(el))

\* C14: for every reply but the sentinel, sendReceiveObjectList makes one
\* object per "|"-element of the reply, in the reply's order, from that
\* element's ","-fields in order, cutting at most maxsplit times; the empty
\* reply gives the empty list; the only other outcome is the constructor's
\* refusal of the number of fields.
C14_ObjectList ==
    (outcome.kind # "pending" /\ op.name = "sendReceiveObjectList"
        /\ raw # RequestFailed) =>
        IF \A i \in 1..NElements : NFields(Element(i)) = op.arity
            THEN /\ outcome.kind = "objs"
                 /\ Len(outcome.val) = NElements
                 /\ \A i \in 1..NElements :
                       /\ Len(outcome.val[i]) = op.arity
                       /\ \A j \in 1..op.arity :
                             outcome.val[i][j] = Field(Element(i), j)
            ELSE outcome.kind = "TypeError"

C14_Witness ==
    /\ op.name = "sendReceiveObjectList"
    /\ op.maxsplit = 2
    /\ raw = <<"b", ",", "7", ",", "b", ",", "b">>
    /\ outcome = Result("objs", << << <<"b">>, <<"7">>, <<"b", ",", "b">> >> >>)

\* C15: for every reply but the sentinel, sendReceiveBool returns true when
\* the reply is the text "true" and false for any other text.
C15_BoolIsTrueText ==
    (outcome.kind # "pending" /\ op.name = "sendReceiveBool" /\ raw # RequestFailed) =>
        /\ outcome.kind = "bool"
        /\ outcome.val = <<raw = <<"t", "r", "u", "e">>>>

C15_Witness ==
    /\ op.name = "sendReceiveBool"
    /\ raw = <<"t", "r", "u", "e">>
    /\ outcome = Result("bool", <<TRUE>>)

\* C16: for every reply but the sentinel, sendReceiveScalar returns the
\* converter's value when the reply parses and None when it does not; it
\* raises nothing, and a reply that parses to zero gives zero, not None.
C16_ScalarOrNone ==
    (outcome.kind # "pending" /\ op.name = "sendReceiveScalar"
        /\ raw # RequestFailed) =>
        /\ outcome.kind \in {"scalar", "None"}
        /\ (outcome.kind = "None") <=> Raises(op.converter, raw)
        /\ outcome.kind = "scalar" => outcome.val = <<Convert(op.converter, raw)>>
        /\ raw = <<"0">> => (outcome.kind = "scalar" /\ outcome.val[1].n = 0)
        /\ raw \in {<<>>, <<"-">>, <<"1", ",", "1">>} => outcome.kind = "None"

C16_Witness ==
    /\ op.name = "sendReceiveScalar"
    /\ op.converter = "float"
    /\ raw = <<"0">>
    /\ outcome.kind = "scalar"
    /\ outcome.val[1].n = 0

\* C17: create connects to the host variable's text when the variable is
\* set, else to the address it was given; to the port variable's number when
\* the variable is set to the text of an integer, else, and without an
\* error, to the port it was given.
C17_CreateTarget ==
    mcall.name = "create" =>
        /\ mret.kind = "Minecraft"
        /\ target.address = IF environ.JRP_API_HOST.isSet
                                THEN environ.JRP_API_HOST.text
                                ELSE mcall.arg[1]
        /\ target.port =
              CASE ~environ.JRP_API_PORT.isSet -> mcall.arg[2]
                [] environ.JRP_API_PORT = EnvVar(TRUE, <<"2", "5">>) -> 25
                [] environ.JRP_API_PORT = EnvVar(TRUE, <<"-", "1">>) -> -1
                [] OTHER -> mcall.arg[2]

C17_Witness ==
    /\ mcall.name = "create"
    /\ mcall.arg = <<DefaultAddress, 9>>
    /\ environ.JRP_API_HOST = EnvVar(TRUE, <<"h", "1">>)
    /\ environ.JRP_API_PORT = EnvVar(TRUE, <<"2", "x">>)
    /\ target = [address |-> <<"h", "1">>, port |-> 9]

\* C18: a reply read takes from the socket the bytes up to the first newline
\* and no more: nothing that followed the newline has gone with the file
\* object of the read.
C18_ReadsOneLine ==
    (LineReturned /\ EndedAtNewline) => Len(rbuf) = Find(Chars(rbuf), NL)

\* s is the beginning of t
IsPrefix(s, t) == Len(s) <= Len(t) /\ s = SubSeq(t, 1, Len(s))

\* C19: every send-and-receive operation, the ones that hand the request to
\* another operation included, makes one drain, then one write, then one
\* read, and no more; the frames written are never more than one ahead of
\* the reads started.
C19_OneRequestInFlight ==
    /\ IsPrefix(steps, <<"drain", "write", "read">>)
    /\ pc \in {"poll", "recv", "write"} => steps = <<"drain">>
    /\ pc = "read" => Len(steps) >= 2
    /\ (pc = "idle" /\ nOps > 0) => steps = <<"drain", "write", "read">>
    /\ nSent = nOps - (IF pc \in {"poll", "recv", "write"} THEN 1 ELSE 0)
    /\ nReads <= nSent
    /\ nSent <= nReads + 1

C19_Witness ==
    /\ op.name = "sendReceiveObjectList"
    /\ prevKind = "bool"
    /\ LineReturned
    /\ steps = <<"drain", "write", "read">>
    /\ nSent = 2
    /\ nReads = 2

\* the method of Minecraft that returned last, with no other one running
Returned(name) == mcall = NoCall /\ mret.call.name = name

\* what getPlayerName gives back when the name kept passes for one
KeptGivenBack ==
    /\ mret.kind = "str"
    /\ mret.val = mret.call.was.s
    /\ mret.frames = 0

\* what getPlayerName gives back when it has to ask: the reply to its one
\* getPlayer request, None for the reply "(none)"
AskedRemote ==
    /\ mret.frames = 1
    /\ op.f = <<"g", "e", "t", "P", "l", "a", "y", "e", "r">>
    /\ outcome.kind = "str" =>
          /\ (mret.kind = "None") <=> (outcome.val = <<"(", "n", "o", "n", "e", ")">>)
          /\ mret.kind # "None" => (mret.kind = "str" /\ mret.val = outcome.val)

\* setPlayer leaves the name when the reply was "true", nothing after any
\* other reply, and what was kept before when the request failed
SetPlayerKeeps ==
    Returned("setPlayer") =>
        /\ mret.frames = 1
        /\ mret.kind = "bool" =>
              _playerName = IF mret.val[1] THEN PyStr(mret.call.arg) ELSE PyNone
        /\ mret.kind = "RequestError" => _playerName = mret.call.was

\* C20 as claimed: getPlayerName gives back whatever name setPlayer left,
\* without a request.
C20_PlayerNameCache ==
    /\ SetPlayerKeeps
    /\ Returned("getPlayerName") =>
          /\ _playerName = mret.call.was
          /\ IF mret.call.was.k = "str" THEN KeptGivenBack ELSE AskedRemote

\* C20: getPlayerName gives back the name setPlayer left, without a
\* request, when that name is not the empty text; with the empty text kept,
\* as with none, it asks the remote.
C20_PlayerNameCacheNonEmpty ==
    /\ SetPlayerKeeps
    /\ Returned("getPlayerName") =>
          /\ _playerName = mret.call.was
          /\ IF mret.call.was.k = "str" /\ mret.call.was.s # <<>>
                THEN KeptGivenBack ELSE AskedRemote

C20_Witness ==
    /\ Returned("getPlayerName")
    /\ op.name = "sendReceiveBool"
    /\ outcome = Result("bool", <<TRUE>>)
    /\ nSent = 1
    /\ mret.call.was = PyStr(<<"a", "l">>)
    /\ mret.kind = "str"
    /\ mret.val = <<"a", "l">>
    /\ mret.frames = 0

====
